---- MODULE Spec2Model ----
(***************************************************************************)
(* Model of programs/scope/src/oracles/mod.rs: the OracleType registry     *)
(* (is_twap, get_update_cu_budget), the dispatch engine (get_price), the   *)
(* configuration validator (validate_oracle_cfg) and check_context.        *)
(*                                                                         *)
(* The per-kind adapters (pyth::get_price, jupiter_lp::validate_jlp_pool,  *)
(* ...) live in other modules: each adapter call is a black box whose      *)
(* outcome (its Result, and how many handles it pulled from the            *)
(* extra_accounts iterator it was handed) is an input of the action.       *)
(*                                                                         *)
(* A call either returns Ok(v), returns Err(e), or panics (aborts).        *)
(***************************************************************************)
EXTENDS Integers, Sequences, FiniteSets, TLC

VARIABLES
    yvaults,            \* build configuration: cargo feature "yvaults"
    oracle_mappings,    \* OracleMappings.generic: index -> 20-byte payload
    op,                 \* the function of mod.rs that ran last ("idle": none
                        \* since the caller took the last outcome)
    args,               \* its arguments
    ret,                \* its outcome: Ok / Err / Panic
    extra_accounts,     \* the extra_accounts iterator after the call
    malformed           \* the payloads that do not decode as a Price: Price
                        \* and its decoder are defined outside oracles/mod.rs

vars == <<yvaults, oracle_mappings, op, args, ret, extra_accounts, malformed>>

(***************************************************************************)
(* Bounds                                                                  *)
(***************************************************************************)
\* longest auxiliary handle stream (extra_accounts / remaining_accounts)
MaxExtra == 2

(***************************************************************************)
(* Outcomes                                                                *)
(***************************************************************************)
Ok(v) == [tag |-> "Ok", val |-> v]
Err(e) == [tag |-> "Err", err |-> e]
Panic == [tag |-> "Panic"]
Unit == "()"

(***************************************************************************)
(* enum OracleType                                                         *)
(***************************************************************************)
OracleType ==
    { "Pyth", "DeprecatedPlaceholder1", "SwitchboardV2",
      "DeprecatedPlaceholder2", "CToken", "SplStake", "KToken", "PythEMA",
      "MsolStake", "KTokenToTokenA", "KTokenToTokenB", "JupiterLpFetch",
      "ScopeTwap", "OrcaWhirlpoolAtoB", "OrcaWhirlpoolBtoA",
      "RaydiumAmmV3AtoB", "RaydiumAmmV3BtoA", "JupiterLpCompute",
      "MeteoraDlmmAtoB", "MeteoraDlmmBtoA", "JupiterLpScope",
      "PythPullBased", "PythPullBasedEMA", "FixedPrice" }

DeprecatedTypes == {"DeprecatedPlaceholder1", "DeprecatedPlaceholder2"}

LiveTypes == OracleType \ DeprecatedTypes

KTokenTypes == {"KToken", "KTokenToTokenA", "KTokenToTokenB"}

(***************************************************************************)
(* OracleType::is_twap: matches!(self, OracleType::ScopeTwap)              *)
(***************************************************************************)
is_twap_two_kinds(self) == Ok(self \in {"ScopeTwap", "PythEMA"})

is_twap(self) == Ok(self = "ScopeTwap")

(***************************************************************************)
(* OracleType::get_update_cu_budget                                        *)
(***************************************************************************)
CuBudgetTable ==
    [ k \in LiveTypes |->
        CASE k = "FixedPrice" -> 10000
          [] k \in {"PythPullBased", "PythPullBasedEMA"} -> 20000
          [] k \in {"Pyth", "SwitchboardV2"} -> 30000
          [] k = "CToken" -> 130000
          [] k = "SplStake" -> 20000
          [] k = "KToken" -> 120000
          [] k = "PythEMA" -> 30000
          [] k \in {"KTokenToTokenA", "KTokenToTokenB"} -> 100000
          [] k = "MsolStake" -> 20000
          [] k = "JupiterLpFetch" -> 40000
          [] k = "ScopeTwap" -> 30000
          [] k \in {"OrcaWhirlpoolAtoB", "OrcaWhirlpoolBtoA",
                    "RaydiumAmmV3AtoB", "RaydiumAmmV3BtoA"} -> 25000
          [] k \in {"MeteoraDlmmAtoB", "MeteoraDlmmBtoA"} -> 30000
          [] k \in {"JupiterLpCompute", "JupiterLpScope"} -> 120000 ]

get_update_cu_budget_default(self) ==
    IF self \in DeprecatedTypes THEN Ok(0) ELSE Ok(CuBudgetTable[self])

get_update_cu_budget(self) ==
    IF self \in DeprecatedTypes THEN Panic ELSE Ok(CuBudgetTable[self])

(***************************************************************************)
(* Price (mantissa and exponent) and its decoding.  Which payloads are a    *)
(* well-formed Price is the decoder's to say (malformed); a well-formed    *)
(* one is read as value, then exp.  A u64 is kept as its four 16-bit       *)
(* limbs, least significant first.                                         *)
(***************************************************************************)
U64Limbs(b) == [k \in 1..4 |-> b[2 * k - 1] + 256 * b[2 * k]]

ZeroU64 == <<0, 0, 0, 0>>

\* u64::deserialize: eight bytes, little endian; fails on a short input
deserialize_u64(data) ==
    IF Len(data) < 8
    THEN Err("Unexpected length of input")
    ELSE Ok([v |-> U64Limbs(SubSeq(data, 1, 8)),
             rest |-> SubSeq(data, 9, Len(data))])

\* <Price as AnchorDeserialize>::deserialize(&mut data): fails on a payload
\* that is not a well-formed Price, else yields value, then exp
deserialize_Price(data) ==
    LET a == deserialize_u64(data) IN
    IF data \in malformed THEN Err("Not a well-formed Price")
    ELSE IF a.tag = "Err" THEN a
    ELSE LET b == deserialize_u64(a.val.rest) IN
         IF b.tag = "Err" THEN b
         ELSE Ok([value |-> a.val.v, exp |-> b.val.v])

DatedPriceDefault ==
    [ price |-> [value |-> ZeroU64, exp |-> ZeroU64],
      last_updated_slot |-> 0,
      unix_timestamp |-> 0,
      generic_metadata |-> "default" ]

\* i64 -> u64 (TryInto): fails on a negative value
try_into_u64(x) == IF x < 0 THEN Err("TryFromIntError") ELSE Ok(x)

(***************************************************************************)
(* Inputs                                                                  *)
(***************************************************************************)
Accounts == {"acc1", "acc2"}

None == "None"

OptAccounts == {None} \cup Accounts

is_some(a) == a # None

SeqsUpTo(S, n) == UNION {[1..k -> S] : k \in 0..n}

Streams == SeqsUpTo(Accounts, MaxExtra)

Indexes == 0..1

Payload(v0, v1, e0, pad) ==
    <<v0, v1, 0, 0, 0, 0, 0, 0, e0, 0, 0, 0, 0, 0, 0, 0, pad, pad, pad, pad>>

FullPayload == [i \in 1..20 |-> 255]

\* 12345 = 57 + 256 * 48
Payloads ==
    { Payload(57, 48, 6, 0), Payload(0, 0, 0, 0), Payload(1, 0, 2, 7),
      FullPayload }

\* the decoders considered: from the one that rejects no 20-byte payload
\* (two little-endian u64, the four bytes left over ignored) to ones that
\* reject some; the price {12345, 6} and the default price {0, 0} are
\* well-formed for all of them
MalformedChoices == SUBSET {Payload(1, 0, 2, 7), FullPayload}

Clocks == [slot : {0, 100}, unix_timestamp : {-1, 0, 1700000000}]

TwapSources == {0, 65535}

\* what an adapter's get_price can answer
AdapterPrice ==
    [DatedPriceDefault EXCEPT !.price = [value |-> <<1, 0, 0, 0>>,
                                         exp |-> ZeroU64],
                              !.last_updated_slot = 1,
                              !.unix_timestamp = 1]

AdapterResults == {Ok(AdapterPrice), Err("AdapterError")}

\* what an adapter's validation routine can answer
ValidationResults == {Ok(Unit), Err("AdapterValidationError")}

(***************************************************************************)
(* check_context: no extra account may be left in the request              *)
(***************************************************************************)
check_context(remaining_accounts) ==
    IF remaining_accounts # <<>>
    THEN Err("UnexpectedAccount")
    ELSE Ok(Unit)

(***************************************************************************)
(* get_price                                                               *)
(***************************************************************************)
\* variant: the Raydium arms hand the iterator over as the Orca arms do
ExtraAccountsTypes_with_raydium ==
    KTokenTypes \cup
    { "JupiterLpFetch", "JupiterLpCompute", "JupiterLpScope",
      "OrcaWhirlpoolAtoB", "OrcaWhirlpoolBtoA",
      "RaydiumAmmV3AtoB", "RaydiumAmmV3BtoA",
      "MeteoraDlmmAtoB", "MeteoraDlmmBtoA" }

\* the arms that hand the extra_accounts iterator to their adapter
ExtraAccountsTypes ==
    KTokenTypes \cup
    { "JupiterLpFetch", "JupiterLpCompute", "JupiterLpScope",
      "OrcaWhirlpoolAtoB", "OrcaWhirlpoolBtoA",
      "MeteoraDlmmAtoB", "MeteoraDlmmBtoA" }

\* an adapter that was handed the iterator: it answers ext.result after
\* pulling ext.drawn handles
adapter_with_extra(extra, ext) ==
    [ret |-> ext.result, extra |-> SubSeq(extra, ext.drawn + 1, Len(extra))]

\* an adapter that was not handed the iterator
adapter_without_extra(extra, ext) == [ret |-> ext.result, extra |-> extra]

\* variant: last_updated_slot is left at its default
get_price_fixed_default_slot(clock, mappings, index) ==
    LET price == deserialize_Price(mappings[index])
        ts == try_into_u64(clock.unix_timestamp)
    IN  IF price.tag = "Err" THEN Panic
        ELSE IF ts.tag = "Err" THEN Panic
        ELSE Ok([DatedPriceDefault EXCEPT
                    !.price = price.val,
                    !.unix_timestamp = ts.val])

\* the OracleType::FixedPrice arm
get_price_fixed(clock, mappings, index) ==
    LET price == deserialize_Price(mappings[index])
        ts == try_into_u64(clock.unix_timestamp)
    IN  IF price.tag = "Err" THEN Panic            \* .unwrap()
        ELSE IF ts.tag = "Err" THEN Panic          \* .try_into().unwrap()
        ELSE Ok([DatedPriceDefault EXCEPT
                    !.price = price.val,
                    !.last_updated_slot = clock.slot,
                    !.unix_timestamp = ts.val])

\* ext: what the black boxes answer: load_ok (oracle_prices.load()),
\* result and drawn (the adapter)
get_price(price_type, base_account, extra, clock, mappings, index, yv, ext) ==
    CASE price_type \in DeprecatedTypes -> [ret |-> Panic, extra |-> extra]
      [] price_type = "FixedPrice" ->
            [ret |-> get_price_fixed(clock, mappings, index), extra |-> extra]
      [] price_type \in KTokenTypes /\ ~yv -> [ret |-> Panic, extra |-> extra]
      [] price_type \in KTokenTypes /\ yv -> adapter_with_extra(extra, ext)
      [] price_type = "JupiterLpScope" ->
            IF ext.load_ok
            THEN adapter_with_extra(extra, ext)
            ELSE [ret |-> Err("AccountLoadError"), extra |-> extra]
      [] price_type \in ExtraAccountsTypes \ (KTokenTypes \cup {"JupiterLpScope"}) ->
            adapter_with_extra(extra, ext)
      [] OTHER -> adapter_without_extra(extra, ext)

(***************************************************************************)
(* validate_oracle_cfg                                                     *)
(***************************************************************************)
\* variant: SwitchboardV2 is validated by its adapter
UnvalidatedTypes_without_switchboard ==
    { "CToken", "SplStake", "KToken", "KTokenToTokenA",
      "KTokenToTokenB", "MsolStake" }

\* the arms that are a bare Ok(())
UnvalidatedTypes ==
    { "SwitchboardV2", "CToken", "SplStake", "KToken", "KTokenToTokenA",
      "KTokenToTokenB", "MsolStake" }

\* variant: the decoder's own error is passed on (no map_err)
validate_fixed_price_decode_error(price_account, generic_data) ==
    IF is_some(price_account) THEN Err("PriceNotValid")
    ELSE IF deserialize_Price(generic_data).tag = "Err"
         THEN deserialize_Price(generic_data)
         ELSE Ok(Unit)

\* variant: a supplied account is not looked at
validate_fixed_price_any_account(price_account, generic_data) ==
    IF deserialize_Price(generic_data).tag = "Err"
    THEN Err("FixedPriceInvalid")
    ELSE Ok(Unit)

\* the OracleType::FixedPrice arm
validate_fixed_price(price_account, generic_data) ==
    IF is_some(price_account) THEN Err("PriceNotValid")
    ELSE IF deserialize_Price(generic_data).tag = "Err"
         THEN Err("FixedPriceInvalid")
         ELSE Ok(Unit)

\* variant: no arm of its own for the deprecated kinds
validate_oracle_cfg_no_panic(price_type, price_account, twap_source, generic_data, ext) ==
    CASE price_type \in UnvalidatedTypes -> Ok(Unit)
      [] price_type = "FixedPrice" ->
            validate_fixed_price(price_account, generic_data)
      [] OTHER -> ext

\* ext: what the adapter's validation routine answers
validate_oracle_cfg(price_type, price_account, twap_source, generic_data, ext) ==
    CASE price_type \in UnvalidatedTypes -> Ok(Unit)
      [] price_type = "FixedPrice" ->
            validate_fixed_price(price_account, generic_data)
      [] price_type \in DeprecatedTypes -> Panic
      [] OTHER -> ext   \* Pyth*, JupiterLp*, ScopeTwap, Orca, Raydium, Meteora

(***************************************************************************)
(* The state machine: one action per function of mod.rs                    *)
(***************************************************************************)
NoArgs == [price_type |-> "none"]

Init ==
    /\ yvaults \in BOOLEAN
    /\ oracle_mappings \in [Indexes -> Payloads]
    /\ malformed \in MalformedChoices
    /\ op = "idle"
    /\ args = NoArgs
    /\ ret = Ok(Unit)
    /\ extra_accounts = <<>>

CallIsTwap ==
    /\ op = "idle"
    /\ \E k \in OracleType :
        /\ op' = "is_twap"
        /\ args' = [price_type |-> k]
        /\ ret' = is_twap(k)
        /\ UNCHANGED <<yvaults, oracle_mappings, malformed, extra_accounts>>

CallGetUpdateCuBudget ==
    /\ op = "idle"
    /\ \E k \in OracleType :
        /\ op' = "get_update_cu_budget"
        /\ args' = [price_type |-> k]
        /\ ret' = get_update_cu_budget(k)
        /\ UNCHANGED <<yvaults, oracle_mappings, malformed, extra_accounts>>

CallCheckContext ==
    /\ op = "idle"
    /\ \E remaining \in Streams :
        /\ op' = "check_context"
        /\ args' = [remaining_accounts |-> remaining]
        /\ ret' = check_context(remaining)
        /\ UNCHANGED <<yvaults, oracle_mappings, malformed, extra_accounts>>

CallGetPrice ==
    /\ op = "idle"
    /\ \E k \in OracleType, base \in Accounts, extra \in Streams,
          clock \in Clocks, index \in Indexes,
          load_ok \in BOOLEAN, result \in AdapterResults :
         \E drawn \in 0..Len(extra) :
            LET r == get_price(k, base, extra, clock, oracle_mappings, index,
                               yvaults,
                               [load_ok |-> load_ok, result |-> result,
                                drawn |-> drawn])
            IN  /\ op' = "get_price"
                /\ args' = [price_type |-> k, base_account |-> base,
                            extra_accounts |-> extra, clock |-> clock,
                            index |-> index]
                /\ ret' = r.ret
                /\ extra_accounts' = r.extra
                /\ UNCHANGED <<yvaults, oracle_mappings, malformed>>

CallValidateOracleCfg ==
    /\ op = "idle"
    /\ \E k \in OracleType, acct \in OptAccounts, twap_source \in TwapSources,
       generic_data \in Payloads, ext \in ValidationResults :
        /\ op' = "validate_oracle_cfg"
        /\ args' = [price_type |-> k, price_account |-> acct,
                    twap_source |-> twap_source,
                    generic_data |-> generic_data]
        /\ ret' = validate_oracle_cfg(k, acct, twap_source, generic_data, ext)
        /\ UNCHANGED <<yvaults, oracle_mappings, malformed, extra_accounts>>

\* single-threaded, run to completion: the caller takes the outcome of a
\* call before it issues the next one
Return ==
    /\ op # "idle"
    /\ op' = "idle"
    /\ args' = NoArgs
    /\ ret' = Ok(Unit)
    /\ extra_accounts' = <<>>
    /\ UNCHANGED <<yvaults, oracle_mappings, malformed>>

Next ==
    \/ CallIsTwap
    \/ CallGetUpdateCuBudget
    \/ CallCheckContext
    \/ CallGetPrice
    \/ CallValidateOracleCfg
    \/ Return

Spec == Init /\ [][Next]_vars

(***************************************************************************)
(* Properties                                                              *)
(***************************************************************************)
Placeholders == {"DeprecatedPlaceholder1", "DeprecatedPlaceholder2"}

\* C1: get_update_cu_budget returns, for every live kind, the value the
\* table fixes for it, which is greater than 0; for the two deprecated
\* placeholders it panics and returns nothing.
C1_BudgetPositiveOrPanic ==
    op = "get_update_cu_budget" =>
        /\ args.price_type \notin Placeholders =>
              /\ ret.tag = "Ok"
              /\ ret.val > 0
              /\ ret.val = CuBudgetTable[args.price_type]
        /\ args.price_type \in Placeholders => ret = Panic

C1_Witness ==
    /\ op = "get_update_cu_budget"
    /\ args.price_type = "CToken"
    /\ ret = Ok(130000)

\* C2: is_twap on a deprecated placeholder kind aborts; it never returns a
\* boolean.
C2_IsTwapAbortsOnDeprecated ==
    (op = "is_twap" /\ args.price_type \in Placeholders) => ret = Panic

\* C3: round trip: whenever validate_oracle_cfg accepts some configuration
\* of a live kind whose payload is the one stored at the index, get_price
\* on that kind and index (with a clock whose time is not negative) does
\* not abort and does not fail with a protocol error.
C3_ValidatedIsDispatchable ==
    ( /\ op = "get_price"
      /\ args.price_type \notin Placeholders
      /\ args.clock.unix_timestamp >= 0
      /\ \E acct \in OptAccounts, ts \in TwapSources, ext \in ValidationResults :
            validate_oracle_cfg(args.price_type, acct, ts,
                                oracle_mappings[args.index], ext) = Ok(Unit) )
    => /\ ret # Panic
       /\ ret # Err("UnexpectedAccount")

\* the DatedPrice of the FixedPrice kind: the price stored at the index,
\* dated with the caller's clock, everything else at its default
FixedDatedPrice ==
    [ price |-> deserialize_Price(oracle_mappings[args.index]).val,
      last_updated_slot |-> args.clock.slot,
      unix_timestamp |-> args.clock.unix_timestamp,
      generic_metadata |-> DatedPriceDefault.generic_metadata ]

\* the payload stored at the index decodes to a Price
StoredPriceDecodes ==
    deserialize_Price(oracle_mappings[args.index]).tag = "Ok"

\* C4 (as stated): for every index whose payload decodes to a Price and for
\* every clock, get_price on FixedPrice returns Ok(DatedPrice) with the
\* stored price, the clock's slot and the clock's unix time, and leaves the
\* auxiliary stream alone.
C4_FixedPriceEveryClock ==
    (op = "get_price" /\ args.price_type = "FixedPrice" /\ StoredPriceDecodes) =>
        /\ ret = Ok(FixedDatedPrice)
        /\ extra_accounts = args.extra_accounts

\* C4 (amended): for every index whose payload decodes to a Price and for
\* every clock whose unix time is not negative, get_price on FixedPrice
\* returns Ok(DatedPrice) with the stored price (payload
\* {12345, 6} gives value 12345, exp 6), the clock's slot and unix time and
\* the other fields at their default; for a negative unix time it panics.
\* Either way the auxiliary stream is left alone, and the outcome does not
\* depend on the primary handle.
C4_FixedPriceNonNegativeClock ==
    (op = "get_price" /\ args.price_type = "FixedPrice") =>
        /\ (args.clock.unix_timestamp >= 0 /\ StoredPriceDecodes) =>
              ret = Ok(FixedDatedPrice)
        /\ args.clock.unix_timestamp < 0 => ret = Panic
        /\ (ret.tag = "Ok" /\ oracle_mappings[args.index] = Payload(57, 48, 6, 0)) =>
              ret.val.price = [value |-> <<12345, 0, 0, 0>>,
                               exp |-> <<6, 0, 0, 0>>]
        /\ (ret.tag = "Ok" /\ oracle_mappings[args.index] = FullPayload) =>
              ret.val.price = [value |-> <<65535, 65535, 65535, 65535>>,
                               exp |-> <<65535, 65535, 65535, 65535>>]
        /\ extra_accounts = args.extra_accounts

C4_Witness ==
    /\ op = "get_price"
    /\ args.price_type = "FixedPrice"
    /\ oracle_mappings[args.index] = Payload(57, 48, 6, 0)
    /\ args.clock = [slot |-> 100, unix_timestamp |-> 1700000000]
    /\ args.extra_accounts = <<"acc1", "acc2">>
    /\ extra_accounts = <<"acc1", "acc2">>
    /\ ret = Ok([ price |-> [value |-> <<12345, 0, 0, 0>>,
                             exp |-> <<6, 0, 0, 0>>],
                  last_updated_slot |-> 100,
                  unix_timestamp |-> 1700000000,
                  generic_metadata |-> "default" ])

C6_FixedPriceWithAccountRejected ==
    (op = "validate_oracle_cfg" /\ args.price_type = "FixedPrice"
        /\ args.price_account # None) =>
        ret = Err("PriceNotValid")

C6_Witness ==
    /\ op = "validate_oracle_cfg"
    /\ args.price_type = "FixedPrice"
    /\ args.price_account = "acc1"
    /\ args.generic_data = Payload(57, 48, 6, 0)
    /\ ret = Err("PriceNotValid")

\* C7: on a deprecated placeholder kind neither get_price nor
\* validate_oracle_cfg returns Ok or Err: each call panics.
C7_DeprecatedAborts ==
    (op \in {"get_price", "validate_oracle_cfg"}
        /\ args.price_type \in Placeholders) =>
        /\ ret.tag \notin {"Ok", "Err"}
        /\ ret = Panic

C7_Witness ==
    /\ op = "validate_oracle_cfg"
    /\ args.price_type = "DeprecatedPlaceholder2"
    /\ args.price_account = "acc2"
    /\ ret = Panic

NoAuxTypes ==
    { "Pyth", "PythPullBased", "PythPullBasedEMA", "PythEMA",
      "SwitchboardV2", "CToken", "SplStake", "MsolStake", "ScopeTwap",
      "RaydiumAmmV3AtoB", "RaydiumAmmV3BtoA", "FixedPrice" }

\* C8: get_price on a kind that declares no auxiliary handle leaves the
\* auxiliary stream as it was, whether it succeeds or fails; check_context
\* returns Err(UnexpectedAccount) when the remaining accounts are not empty
\* and Ok only when they are empty.
C8_SurplusUndrained ==
    /\ (op = "get_price" /\ args.price_type \in NoAuxTypes) =>
          extra_accounts = args.extra_accounts
    /\ op = "check_context" =>
          /\ args.remaining_accounts # <<>> => ret = Err("UnexpectedAccount")
          /\ ret.tag = "Ok" => args.remaining_accounts = <<>>
          /\ args.remaining_accounts = <<>> => ret = Ok(Unit)

C8_Witness ==
    /\ op = "get_price"
    /\ args.price_type = "RaydiumAmmV3AtoB"
    /\ args.extra_accounts = <<"acc2", "acc1">>
    /\ ret.tag = "Err"
    /\ extra_accounts = <<"acc2", "acc1">>

\* C9: is_twap returns true for ScopeTwap and false for every other kind.
C9_IsTwapOnlyScopeTwap ==
    op = "is_twap" =>
        /\ ret.tag = "Ok"
        /\ ret.val = TRUE <=> args.price_type = "ScopeTwap"
        /\ ret.val = FALSE <=> args.price_type # "ScopeTwap"

C9_Witness ==
    /\ op = "is_twap"
    /\ args.price_type = "ScopeTwap"
    /\ ret = Ok(TRUE)

PermissiveTypes ==
    { "SplStake", "MsolStake", "SwitchboardV2", "CToken", "KToken",
      "KTokenToTokenA", "KTokenToTokenB" }

\* C10: validate_oracle_cfg on SplStake, MsolStake, SwitchboardV2, CToken,
\* KToken, KTokenToTokenA and KTokenToTokenB returns Ok for every primary
\* handle, twap_source and payload; it never fails and never panics.
C10_PermissiveValidation ==
    (op = "validate_oracle_cfg" /\ args.price_type \in PermissiveTypes) =>
        ret = Ok(Unit)

C10_Witness ==
    /\ op = "validate_oracle_cfg"
    /\ args.price_type = "SwitchboardV2"
    /\ args.price_account = None
    /\ args.twap_source = 65535
    /\ args.generic_data = FullPayload
    /\ ret = Ok(Unit)

====
